---- MODULE Spec2Model ----
(***************************************************************************)
(* Model of the submissions manager of tig-benchmarker                     *)
(* (tig_benchmarker/extensions/submissions_manager.py) together with the   *)
(* driver loop of master.py.                                               *)
(*                                                                         *)
(* The state is the three pending-submission queues, the backup folder on  *)
(* disk, the submissions whose HTTP request is outstanding, the clock and  *)
(* the configuration.  Every handler of the extension is one action.  The  *)
(* only suspension point of a handler that matters is the HTTP round trip  *)
(* in submit(): the part of on_update up to the gather is one action, and  *)
(* the arrival of each response (the rest of submit) is another.           *)
(***************************************************************************)
EXTENDS Integers, Sequences, FiniteSets, TLC

\* ---------------------------------------------------------------- bounds
\* Largest value of the clock (milliseconds, scaled).
MaxTime == 3
\* Largest number of pending submissions alive (queued or in flight), and of
\* backup files, up to which a *_ready event is still delivered.
MaxLive == 2
\* The retry limit of the configurations that set one.
MaxRetries == 2

\* ------------------------------------------------------------ configuration
\* SubmissionsManagerConfig.ms_delay_between_retries.
Delay == 1
\* time.time() is epoch time: larger than the delay, so that a submission
\* with last_retry_time = 0 is always old enough.
StartTime == Delay + 1
\* The configurations checked: max_retries is Optional[int], {} is None.
Configs ==
    {[clear_precommits_submission_on_new_block |-> TRUE,
      max_retries |-> {},
      ms_delay_between_retries |-> Delay],
     [clear_precommits_submission_on_new_block |-> FALSE,
      max_retries |-> {MaxRetries},
      ms_delay_between_retries |-> Delay]}

\* ------------------------------------------------------------------ values
\* The keys of self.pending_submissions.
CategorySet == {"precommit", "benchmark", "proof"}
\* The categories _restore_pending_submissions and on_new_block loop over.
PersistedSet == {"benchmark", "proof"}

Ids == {"b1", "b2"}
\* The benchmark_ready and proof_ready events the producers emit: two with
\* the same benchmark_id and different payloads, one with another id.
BenchmarkEvents ==
    {[benchmark_id |-> "b1", merkle_root |-> "r1", solution_nonces |-> {1, 2}],
     [benchmark_id |-> "b1", merkle_root |-> "r2", solution_nonces |-> {2}],
     [benchmark_id |-> "b2", merkle_root |-> "r1", solution_nonces |-> {1, 2}]}
ProofEvents ==
    {[benchmark_id |-> "b1", merkle_proofs |-> <<"m1", "m2">>],
     [benchmark_id |-> "b1", merkle_proofs |-> <<"m2">>],
     [benchmark_id |-> "b2", merkle_proofs |-> <<"m1", "m2">>]}
\* The confirmed sets a new_block event carries.
ConfirmedSets == {{}, {"b1"}}
\* HTTP statuses the API answers with: success, a client error and a server
\* error.
Statuses == {200, 404, 503}

SubmitPrecommitRequest(settings, num_nonces) ==
    [type |-> "precommit", settings |-> settings, num_nonces |-> num_nonces]

SubmitBenchmarkRequest(benchmark_id, merkle_root, solution_nonces) ==
    [type |-> "benchmark", benchmark_id |-> benchmark_id,
     merkle_root |-> merkle_root, solution_nonces |-> solution_nonces]

SubmitProofRequest(benchmark_id, merkle_proofs) ==
    [type |-> "proof", benchmark_id |-> benchmark_id, merkle_proofs |-> merkle_proofs]

PendingSubmission(last_retry_time, retries, request) ==
    [last_retry_time |-> last_retry_time, retries |-> retries, request |-> request]

VARIABLES
    config,     \* SubmissionsManagerConfig
    pending,    \* self.pending_submissions: category -> sequence
    files,      \* the backup folder: path -> {} (no file) or {content}
    inflight,   \* submissions whose HTTP request is outstanding
    running,    \* the on_update invocations still awaiting their gather
    now,        \* the clock, int(time.time() * 1000)
    last,       \* history: the handler that ran last and what it did
    effect      \* what the handler that ran last let out: events, a fault

vars == <<config, pending, files, inflight, running, now, last, effect>>

\* ------------------------------------------------------------------- helpers
RECURSIVE SortedList(_)
\* list(set) as the serializer writes it: the elements in ascending order.
SortedList(S) ==
    IF S = {} THEN <<>>
    ELSE LET m == CHOOSE x \in S : \A y \in S : x <= y
         IN <<m>> \o SortedList(S \ {m})

Range(s) == {s[i] : i \in 1..Len(s)}

\* request.to_dict(): the JSON object written to the backup file and posted.
ToDict(request) ==
    CASE request.type = "benchmark" ->
            [benchmark_id |-> request.benchmark_id,
             merkle_root |-> request.merkle_root,
             solution_nonces |-> SortedList(request.solution_nonces)]
      [] request.type = "proof" ->
            [benchmark_id |-> request.benchmark_id,
             merkle_proofs |-> request.merkle_proofs]
      [] OTHER ->
            [settings |-> request.settings, num_nonces |-> request.num_nonces]

\* SubmitBenchmarkRequest.from_dict(d) / SubmitProofRequest.from_dict(d).
FromDict(submission_type, d) ==
    IF submission_type = "benchmark"
    THEN SubmitBenchmarkRequest(d.benchmark_id, d.merkle_root, Range(d.solution_nonces))
    ELSE SubmitProofRequest(d.benchmark_id, d.merkle_proofs)

\* os.path.join(backup_folder, <dir>, f"{benchmark_id}.json"); "." is the
\* backup folder itself.  Every file the program names ends in ".json".
BackupPath(dir, benchmark_id) == <<dir, benchmark_id>>
Paths == {".", "benchmark", "proof"} \X Ids

Exists(path) == files[path] # {}
Content(path) == CHOOSE d \in files[path] : TRUE

\* Mutant of IsPending: only submissions never retried are looked at.
IsPendingUnretried(queue, benchmark_id) ==
    \E i \in 1..Len(queue) :
        /\ queue[i].request.benchmark_id = benchmark_id
        /\ queue[i].retries = 0

\* any(x.request.benchmark_id == benchmark_id for x in queue)
IsPending(queue, benchmark_id) ==
    \E i \in 1..Len(queue) : queue[i].request.benchmark_id = benchmark_id

Live == Len(pending["precommit"]) + Len(pending["benchmark"])
        + Len(pending["proof"]) + Cardinality(inflight)

\* The environment delivers a *_ready event for a new submission only while
\* the model has room for it and for its backup file.
HasRoom(path) ==
    /\ Live < MaxLive
    /\ Exists(path) \/ Cardinality({p \in Paths : Exists(p)}) < MaxLive

\* What a handler did: its name, the category and benchmark_id it acted on,
\* the request it was given (<<>>: none), whether it added to or removed
\* from a queue (update: started a submission; restart: dropped retry
\* bookkeeping), the HTTP status it saw (0: none) and the retry count of the
\* submission the status was for.
History(op, cat, id, request, hit, status, retries) ==
    [op |-> op, cat |-> cat, id |-> id, request |-> request, hit |-> hit,
     status |-> status, retries |-> retries]

\* Mutant of EventName: every status below 500 counts as a success.
EventNameBelow500(submission_type, status) ==
    IF status < 500
    THEN "submit_" \o submission_type \o "_success"
    ELSE "submit_" \o submission_type \o "_error"

\* f"submit_{submission_type}_success" (line 203) when the status is 200,
\* f"submit_{submission_type}_error" (line 216) otherwise.
EventName(submission_type, status) ==
    IF status = 200
    THEN "submit_" \o submission_type \o "_success"
    ELSE "submit_" \o submission_type \o "_error"

\* What a handler let out: the events it emitted, in order; whether an
\* exception left on_update; and the number of precommits on_new_block
\* cleared (the number line 139 logs).
Effect(emitted, raised, cleared) ==
    [emitted |-> emitted, raised |-> raised, cleared |-> cleared]
NoEffect == Effect(<<>>, FALSE, 0)

\* -------------------------------------------------------------------- Init
\* The extension constructed over an empty backup folder, at some
\* configuration; construction over a folder that holds files is Restart.
Init ==
    /\ config \in Configs
    /\ pending = [c \in CategorySet |-> <<>>]
    /\ files = [p \in Paths |-> {}]
    /\ inflight = {}
    /\ running = {}
    /\ now = StartTime
    /\ last = History("init", "", "", <<>>, FALSE, 0, 0)
    /\ effect = NoEffect

\* ------------------------------------------------------------ *_ready events
\* Mutant of WriteBackup: the category folder left out of the path.
WriteBackupAtRoot(submission_type, request) ==
    [files EXCEPT ![BackupPath(".", request.benchmark_id)] = {ToDict(request)}]

\* with open(os.path.join(backup_folder, submission_type, f"{id}.json"), "w")
\* as f: json.dump(request.to_dict(), f)
WriteBackup(submission_type, request) ==
    [files EXCEPT ![BackupPath(submission_type, request.benchmark_id)] =
        {ToDict(request)}]

OnPrecommitReady(settings, num_nonces) ==
    /\ Live < MaxLive
    /\ pending' = [pending EXCEPT !["precommit"] =
            Append(@, PendingSubmission(0, 0, SubmitPrecommitRequest(settings, num_nonces)))]
    /\ last' = History("precommit_ready", "precommit", "", <<>>, TRUE, 0, 0)
    /\ effect' = NoEffect
    /\ UNCHANGED <<config, files, inflight, running, now>>

OnBenchmarkReady(benchmark_id, merkle_root, solution_nonces) ==
    LET request == SubmitBenchmarkRequest(benchmark_id, merkle_root, solution_nonces)
    IN IF IsPending(pending["benchmark"], benchmark_id)
       THEN /\ last' = History("benchmark_ready", "benchmark", benchmark_id, request, FALSE, 0, 0)
            /\ effect' = NoEffect
            /\ UNCHANGED <<config, pending, files, inflight, running, now>>
       ELSE /\ HasRoom(BackupPath("benchmark", benchmark_id))
            /\ pending' = [pending EXCEPT !["benchmark"] =
                    Append(@, PendingSubmission(0, 0, request))]
            /\ files' = WriteBackup("benchmark", request)
            /\ last' = History("benchmark_ready", "benchmark", benchmark_id, request, TRUE, 0, 0)
            /\ effect' = NoEffect
            /\ UNCHANGED <<config, inflight, running, now>>

OnProofReady(benchmark_id, merkle_proofs) ==
    LET request == SubmitProofRequest(benchmark_id, merkle_proofs)
    IN IF IsPending(pending["proof"], benchmark_id)
       THEN /\ last' = History("proof_ready", "proof", benchmark_id, request, FALSE, 0, 0)
            /\ effect' = NoEffect
            /\ UNCHANGED <<config, pending, files, inflight, running, now>>
       ELSE /\ HasRoom(BackupPath("proof", benchmark_id))
            /\ pending' = [pending EXCEPT !["proof"] =
                    Append(@, PendingSubmission(0, 0, request))]
            /\ files' = WriteBackup("proof", request)
            /\ last' = History("proof_ready", "proof", benchmark_id, request, TRUE, 0, 0)
            /\ effect' = NoEffect
            /\ UNCHANGED <<config, inflight, running, now>>

\* ----------------------------------------------------------------- new_block
\* Mutant of IsRemoved: "and" for "or".
IsRemovedBoth(submission, precommits, confirmed) ==
    /\ submission.request.benchmark_id \notin precommits
    /\ submission.request.benchmark_id \in confirmed

\* The test of lines 145-148: the submission is expired or confirmed.
IsRemoved(submission, precommits, confirmed) ==
    \/ submission.request.benchmark_id \notin precommits
    \/ submission.request.benchmark_id \in confirmed

RECURSIVE FilteredSubmissions(_, _, _)
\* The loop of on_new_block over one queue: the submissions it keeps.
FilteredSubmissions(queue, precommits, confirmed) ==
    IF queue = <<>> THEN <<>>
    ELSE LET rest == FilteredSubmissions(Tail(queue), precommits, confirmed)
         IN IF IsRemoved(Head(queue), precommits, confirmed)
            THEN rest
            ELSE <<Head(queue)>> \o rest

\* The ids of the submissions the loop removes from one queue.
RemovedIds(queue, precommits, confirmed) ==
    {queue[i].request.benchmark_id : i \in
        {j \in 1..Len(queue) : IsRemoved(queue[j], precommits, confirmed)}}

\* The path on_new_block removes for a removed submission (line 150).
RemovedPath(submission_type, benchmark_id) == BackupPath(".", benchmark_id)

\* Mutant of ClearedPrecommits: the flag read negated.
ClearedPrecommitsNegated(queue) ==
    IF ~ config.clear_precommits_submission_on_new_block THEN <<>> ELSE queue

\* Lines 138-140: the precommit queue as on_new_block leaves it.
ClearedPrecommits(queue) ==
    IF config.clear_precommits_submission_on_new_block THEN <<>> ELSE queue

OnNewBlock(precommits, benchmarks, proofs) ==
    LET confirmed == [c \in PersistedSet |-> IF c = "benchmark" THEN benchmarks ELSE proofs]
        gone == [c \in PersistedSet |-> RemovedIds(pending[c], precommits, confirmed[c])]
        paths == {RemovedPath(c, id) : c \in {"benchmark"}, id \in gone["benchmark"]}
                 \cup {RemovedPath(c, id) : c \in {"proof"}, id \in gone["proof"]}
        first == IF gone["benchmark"] # {} THEN "benchmark" ELSE "proof"
    IN /\ pending' = [c \in CategorySet |->
            IF c = "precommit"
            THEN ClearedPrecommits(pending[c])
            ELSE FilteredSubmissions(pending[c], precommits, confirmed[c])]
       /\ files' = [p \in Paths |-> IF p \in paths THEN {} ELSE files[p]]
       /\ last' = IF gone["benchmark"] \cup gone["proof"] = {}
                  THEN History("new_block", "", "", <<>>, FALSE, 0, 0)
                  ELSE History("new_block", first,
                               CHOOSE id \in gone[first] : TRUE,
                               <<>>, TRUE, 0, 0)
       /\ effect' = Effect(<<>>, FALSE,
                           IF config.clear_precommits_submission_on_new_block
                           THEN Len(pending["precommit"]) ELSE 0)
       /\ UNCHANGED <<config, inflight, running, now>>

\* -------------------------------------------------------------------- update
RECURSIVE InsertByRetryTime(_, _)
\* x placed behind every element of the sorted list s that is not younger.
InsertByRetryTime(s, x) ==
    IF s = <<>> THEN <<x>>
    ELSE IF Head(s).last_retry_time <= x.last_retry_time
         THEN <<Head(s)>> \o InsertByRetryTime(Tail(s), x)
         ELSE <<x>> \o s

\* Mutant of SortedByRetryTime: the queue is left in the order of its appends.
Unsorted(queue) == queue

RECURSIVE InsertByRetryTimeDescending(_, _)
InsertByRetryTimeDescending(s, x) ==
    IF s = <<>> THEN <<x>>
    ELSE IF Head(s).last_retry_time >= x.last_retry_time
         THEN <<Head(s)>> \o InsertByRetryTimeDescending(Tail(s), x)
         ELSE <<x>> \o s

RECURSIVE SortedByRetryTimeDescending(_)
\* Mutant of SortedByRetryTime: sorted(..., reverse=True), youngest first.
SortedByRetryTimeDescending(queue) ==
    IF queue = <<>> THEN <<>>
    ELSE InsertByRetryTimeDescending(
            SortedByRetryTimeDescending(SubSeq(queue, 1, Len(queue) - 1)),
            queue[Len(queue)])

RECURSIVE SortedByRetryTime(_)
\* sorted(queue, key=lambda x: x.last_retry_time): ascending and stable.
SortedByRetryTime(queue) ==
    IF queue = <<>> THEN <<>>
    ELSE InsertByRetryTime(SortedByRetryTime(SubSeq(queue, 1, Len(queue) - 1)),
                           queue[Len(queue)])

\* Mutant of IsReady: the delay taken one unit short.
IsReadyEarly(submission, t) ==
    ~ (t - submission.last_retry_time < config.ms_delay_between_retries - 1)

\* Mutant of IsReady: "<=" for "<".
IsReadyStrict(submission, t) ==
    ~ (t - submission.last_retry_time <= config.ms_delay_between_retries)

\* The negation of the test of line 165: the head is old enough.
IsReady(submission, t) ==
    ~ (t - submission.last_retry_time < config.ms_delay_between_retries)

\* Mutant of UpdateCategory: "while" for "if", every item that is old enough
\* is popped and started.
UpdateCategoryDrain(queue, t) ==
    LET sorted == SortedByRetryTime(queue)
        Ready(s) == IsReady(s, t)
        Waiting(s) == ~ IsReady(s, t)
    IN [queue |-> SelectSeq(sorted, Waiting), started |-> SelectSeq(sorted, Ready)]

\* One round of the loop of on_update: the queue it leaves and the
\* submission it starts, if any.
UpdateCategory(queue, t) ==
    IF Len(queue) > 0
    THEN LET sorted == SortedByRetryTime(queue)
         IN IF IsReady(sorted[1], t)
            THEN [queue |-> Tail(sorted), started |-> <<sorted[1]>>]
            ELSE [queue |-> sorted, started |-> <<>>]
    ELSE [queue |-> queue, started |-> <<>>]

\* The submission's category as submit() finds it (isinstance).
SubmissionType(submission) == submission.request.type
SubmissionId(submission) ==
    IF SubmissionType(submission) = "precommit" THEN ""
    ELSE submission.request.benchmark_id

\* The smallest number no outstanding request carries.
FreshTick ==
    CHOOSE k \in 1..(Cardinality(inflight) + 1) :
        /\ \A x \in inflight : x.tick # k
        /\ \A j \in 1..(k - 1) : \E x \in inflight : x.tick = j

\* on_update up to the gather: every category's queue is sorted, the head
\* of each is popped when it is old enough, and its submit() is started.
OnUpdate ==
    LET round == [c \in CategorySet |-> UpdateCategory(pending[c], now)]
        started == UNION {Range(round[c].started) : c \in CategorySet}
        tick == FreshTick
    IN /\ pending' = [c \in CategorySet |-> round[c].queue]
       /\ inflight' = inflight \cup {[tick |-> tick, submission |-> s] : s \in started}
       /\ running' = IF started = {} THEN running ELSE running \cup {tick}
       /\ last' = History("update", "", "", <<>>, started # {}, 0, 0)
       /\ effect' = NoEffect
       /\ UNCHANGED <<config, files, now>>

\* -------------------------------------------------------------------- submit
\* Mutant of ShouldRetry: "<=" for "<" in the test of the retry count.
ShouldRetryInclusive(submission, status) ==
    /\ 500 <= status
    /\ status <= 599
    /\ \/ config.max_retries = {}
       \/ \A n \in config.max_retries : submission.retries + 1 <= n

\* Mutant of ShouldRetry: the retry count is not tested.
ShouldRetryUncapped(submission, status) ==
    /\ 500 <= status
    /\ status <= 599

\* The test of lines 209-212.
ShouldRetry(submission, status) ==
    /\ 500 <= status
    /\ status <= 599
    /\ \/ config.max_retries = {}
       \/ \A n \in config.max_retries : submission.retries + 1 < n

\* Lines 213-214.
Retried(submission, t) ==
    [submission EXCEPT !.retries = @ + 1, !.last_retry_time = t]

\* The on_update invocations still waiting once request x is finished.
StillRunning(x) ==
    IF \E y \in inflight \ {x} : y.tick = x.tick THEN running ELSE running \ {x.tick}

\* The response to an outstanding request arrives: submit() from line 200.
SubmitResponse(x, status) ==
    LET submission == x.submission
        submission_type == SubmissionType(submission)
        retry == status # 200 /\ ShouldRetry(submission, status)
    IN /\ x \in inflight
       /\ inflight' = inflight \ {x}
       /\ running' = StillRunning(x)
       /\ pending' = IF retry
                     THEN [pending EXCEPT ![submission_type] =
                            Append(@, Retried(submission, now))]
                     ELSE pending
       /\ last' = History("submit", submission_type, SubmissionId(submission),
                          submission.request, retry, status, submission.retries)
       /\ effect' = Effect(<<EventName(submission_type, status)>>, FALSE, 0)
       /\ UNCHANGED <<config, files, now>>

\* The request fails without a response: session.post raises, submit()
\* has no handler for it (lines 198-216) and raises, and the gather of its
\* on_update (line 175, return_exceptions left at False) raises at once, out
\* of on_update, while the submissions gathered with it go on.
SubmitFailure(x) ==
    /\ x \in inflight
    /\ inflight' = inflight \ {x}
    /\ running' = running \ {x.tick}
    /\ last' = History("submit", SubmissionType(x.submission),
                       SubmissionId(x.submission), x.submission.request, FALSE, 0, x.submission.retries)
    /\ effect' = Effect(<<>>, TRUE, 0)
    /\ UNCHANGED <<config, pending, files, now>>

\* ------------------------------------------------------------------- restart
\* os.listdir(path) filtered to the .json files: their names in some order.
ListDir(dir) ==
    LET names == {id \in Ids : Exists(BackupPath(dir, id))}
    IN {l \in [1..Cardinality(names) -> names] :
            \A i, j \in 1..Cardinality(names) : l[i] = l[j] => i = j}

\* Mutant of RestoredSubmissions: the first file of the listing is skipped.
RestoredSubmissionsSkipFirst(submission_type, listing) ==
    [i \in 1..(Len(listing) - 1) |->
        PendingSubmission(0, 0,
            FromDict(submission_type, Content(BackupPath(submission_type, listing[i + 1]))))]

\* The loop of _restore_pending_submissions over one folder.
RestoredSubmissions(submission_type, listing) ==
    [i \in 1..Len(listing) |->
        PendingSubmission(0, 0,
            FromDict(submission_type, Content(BackupPath(submission_type, listing[i]))))]

\* The process ends and a new one constructs the extension over the same
\* backup folder: __init__.
Restart ==
    /\ \E lb \in ListDir("benchmark"), lp \in ListDir("proof") :
          pending' = [c \in CategorySet |->
              CASE c = "benchmark" -> RestoredSubmissions("benchmark", lb)
                [] c = "proof" -> RestoredSubmissions("proof", lp)
                [] OTHER -> <<>>]
    /\ inflight' = {}
    /\ running' = {}
    /\ last' = History("restart", "", "", <<>>,
                       \E c \in CategorySet : \E i \in 1..Len(pending[c]) :
                            pending[c][i].retries > 0,
                       0, 0)
    /\ effect' = NoEffect
    /\ UNCHANGED <<config, files, now>>

\* --------------------------------------------------------------------- clock
Tick ==
    /\ now < MaxTime
    /\ now' = now + 1
    /\ UNCHANGED <<config, pending, files, inflight, running, last, effect>>

\* ---------------------------------------------------------------------- Next
Next ==
    \/ \E n \in {1} : OnPrecommitReady("s", n)
    \/ \E e \in BenchmarkEvents :
          OnBenchmarkReady(e.benchmark_id, e.merkle_root, e.solution_nonces)
    \/ \E e \in ProofEvents : OnProofReady(e.benchmark_id, e.merkle_proofs)
    \/ \E precommits \in SUBSET Ids, benchmarks \in ConfirmedSets, proofs \in ConfirmedSets :
          OnNewBlock(precommits, benchmarks, proofs)
    \/ OnUpdate
    \/ \E x \in inflight, status \in Statuses : SubmitResponse(x, status)
    \/ \E x \in inflight : SubmitFailure(x)
    \/ Restart
    \/ Tick

Spec == Init /\ [][Next]_vars

\* ------------------------------------------------------ one process lifetime
\* The num_nonces that tell the precommit_ready events apart.
PrecommitTags == {1, 2}

\* A precommit submission with this num_nonces is queued or in flight.
PrecommitLive(num_nonces) ==
    \/ \E i \in 1..Len(pending["precommit"]) :
          pending["precommit"][i].request.num_nonces = num_nonces
    \/ \E x \in inflight :
          /\ x.submission.request.type = "precommit"
          /\ x.submission.request.num_nonces = num_nonces

\* The backup folders the extension is constructed over: an empty one, and
\* one that holds the benchmark b2 a former process left.
Folders ==
    {[p \in Paths |-> {}],
     [p \in Paths |-> IF p = BackupPath("benchmark", "b2")
                      THEN {ToDict(SubmitBenchmarkRequest("b2", "r1", {1, 2}))}
                      ELSE {}]}

\* The extension constructed over one of the folders: __init__ with
\* _restore_pending_submissions.
LiveInit ==
    /\ config \in Configs
    /\ files \in Folders
    /\ \E lb \in ListDir("benchmark"), lp \in ListDir("proof") :
          pending = [c \in CategorySet |->
              CASE c = "benchmark" -> RestoredSubmissions("benchmark", lb)
                [] c = "proof" -> RestoredSubmissions("proof", lp)
                [] OTHER -> <<>>]
    /\ inflight = {}
    /\ running = {}
    /\ now = StartTime
    /\ last = History("init", "", "", <<>>, FALSE, 0, 0)
    /\ effect = NoEffect

\* One event per benchmark_id: the payload plays no part in what follows.
LiveBenchmarkEvents == {e \in BenchmarkEvents : e.merkle_root = "r1"}
LiveProofEvents == {e \in ProofEvents : Len(e.merkle_proofs) = 2}

\* One process that is not restarted and whose requests all get a response;
\* every precommit_ready event carries a num_nonces no live precommit has.
LiveNext ==
    \/ \E n \in PrecommitTags : ~ PrecommitLive(n) /\ OnPrecommitReady("s", n)
    \/ \E e \in LiveBenchmarkEvents :
          OnBenchmarkReady(e.benchmark_id, e.merkle_root, e.solution_nonces)
    \/ \E e \in LiveProofEvents : OnProofReady(e.benchmark_id, e.merkle_proofs)
    \/ \E precommits \in SUBSET Ids, benchmarks \in ConfirmedSets, proofs \in ConfirmedSets :
          OnNewBlock(precommits, benchmarks, proofs)
    \/ OnUpdate
    \/ \E x \in inflight, status \in Statuses : SubmitResponse(x, status)
    \/ Tick

\* master.py emits update every five seconds, for ever; and every request
\* that was started gets its response.
Fairness ==
    /\ WF_vars(OnUpdate)
    /\ WF_vars(\E x \in inflight, status \in Statuses : SubmitResponse(x, status))

LiveSpec == LiveInit /\ [][LiveNext]_vars /\ Fairness

\* ==================================================================== claims
BlockInputs == (SUBSET Ids) \X ConfirmedSets \X ConfirmedSets
ReadyRequests(c) ==
    IF c = "benchmark"
    THEN {SubmitBenchmarkRequest(e.benchmark_id, e.merkle_root, e.solution_nonces) :
            e \in BenchmarkEvents}
    ELSE {SubmitProofRequest(e.benchmark_id, e.merkle_proofs) : e \in ProofEvents}

\* C1: in every reachable state the benchmark queue holds at most one pending
\* submission per benchmark_id, and likewise the proof queue.
NoDuplicatePending ==
    \A c \in PersistedSet : \A i, j \in 1..Len(pending[c]) :
        pending[c][i].request.benchmark_id = pending[c][j].request.benchmark_id => i = j

\* C2: on_new_block leaves in the benchmark queue and in the proof queue
\* exactly the subsequence of the items whose benchmark_id is in precommits
\* and not in the category's confirmed set, in their order.
ReconcileKeepsExactly ==
    [][\A in \in BlockInputs :
          (last'.op = "new_block" /\ OnNewBlock(in[1], in[2], in[3])) =>
              \A c \in PersistedSet :
                  LET confirmed == IF c = "benchmark" THEN in[2] ELSE in[3]
                      Kept(s) == /\ s.request.benchmark_id \in in[1]
                                 /\ s.request.benchmark_id \notin confirmed
                  IN pending'[c] = SelectSeq(pending[c], Kept)]_vars

\* on_new_block has removed a submission from a queue and kept another in it.
ReconcileWitness ==
    /\ last.op = "new_block"
    /\ last.hit
    /\ pending[last.cat] # <<>>

\* C3: once on_new_block has removed a submission from its queue, the backup
\* file written for it, <backup>/<category>/<benchmark_id>.json, is gone.
RemovedBackupDeleted ==
    (last.op = "new_block" /\ last.hit) =>
        ~ Exists(BackupPath(last.cat, last.id))

\* C4: once a response has retired a benchmark or proof submission (it is not
\* queued again), its backup file is gone.
RetiredBackupDeleted ==
    (/\ last.op = "submit"
     /\ last.cat \in PersistedSet
     /\ last.status # 0
     /\ ~ last.hit) =>
        ~ Exists(BackupPath(last.cat, last.id))

\* C5: a benchmark_ready (proof_ready) event for an id that is not queued
\* appends a submission with retries = 0 and last_retry_time = 0 at the tail
\* and leaves a backup file for the id in the category's folder; and every
\* queued benchmark or proof submission has its backup file.
QueuedHaveBackup ==
    \A c \in PersistedSet : \A i \in 1..Len(pending[c]) :
        Exists(BackupPath(c, pending[c][i].request.benchmark_id))

AcceptedReady(c, request) ==
    (\A i \in 1..Len(pending[c]) :
        pending[c][i].request.benchmark_id # request.benchmark_id) =>
        /\ pending'[c] = Append(pending[c],
                [last_retry_time |-> 0, retries |-> 0, request |-> request])
        /\ files'[<<c, request.benchmark_id>>] # {}

ReadyAppendsAndPersists ==
    /\ []QueuedHaveBackup
    /\ [][/\ \A e \in BenchmarkEvents :
                (/\ last'.op = "benchmark_ready"
                 /\ OnBenchmarkReady(e.benchmark_id, e.merkle_root, e.solution_nonces)) =>
                    AcceptedReady("benchmark", SubmitBenchmarkRequest(
                        e.benchmark_id, e.merkle_root, e.solution_nonces))
          /\ \A e \in ProofEvents :
                (/\ last'.op = "proof_ready"
                 /\ OnProofReady(e.benchmark_id, e.merkle_proofs)) =>
                    AcceptedReady("proof", SubmitProofRequest(
                        e.benchmark_id, e.merkle_proofs))]_vars

\* A proof_ready event has been accepted behind a submission already queued.
ReadyWitness ==
    /\ last.op = "proof_ready"
    /\ last.hit
    /\ Len(pending["proof"]) = 2
    /\ pending["proof"][2].request = last.request

\* C6: a benchmark_ready (proof_ready) event whose benchmark_id is already
\* queued leaves the queues, every item's bookkeeping and the backup files
\* as they are, whatever its payload.
DuplicateReady(c, benchmark_id) ==
    (\E i \in 1..Len(pending[c]) : pending[c][i].request.benchmark_id = benchmark_id)
        => UNCHANGED <<pending, files, inflight>>

DuplicateReadyIsNoOp ==
    [][/\ \A e \in BenchmarkEvents :
              (/\ last'.op = "benchmark_ready"
               /\ OnBenchmarkReady(e.benchmark_id, e.merkle_root, e.solution_nonces)) =>
                  DuplicateReady("benchmark", e.benchmark_id)
       /\ \A e \in ProofEvents :
              (/\ last'.op = "proof_ready"
               /\ OnProofReady(e.benchmark_id, e.merkle_proofs)) =>
                  DuplicateReady("proof", e.benchmark_id)]_vars

\* A benchmark_ready event has been ignored whose payload differs from the
\* queued request of the same id, which has been retried before.
DuplicateReadyWitness ==
    /\ last.op = "benchmark_ready"
    /\ ~ last.hit
    /\ \E i \in 1..Len(pending["benchmark"]) :
          /\ pending["benchmark"][i].request.benchmark_id = last.id
          /\ pending["benchmark"][i].request # last.request
          /\ pending["benchmark"][i].retries > 0

\* C7: after a restart the benchmark queue and the proof queue hold exactly
\* one submission per backup file of the category, with the request that was
\* persisted, retries = 0 and last_retry_time = 0, and the precommit queue is
\* empty.
RestoredFrom(c, queue) ==
    LET names == {id \in Ids : files[<<c, id>>] # {}}
    IN /\ Len(queue) = Cardinality(names)
       /\ \A id \in names : \E i \in 1..Len(queue) :
              /\ queue[i].request.benchmark_id = id
              /\ queue[i].request \in ReadyRequests(c)
              /\ files[<<c, id>>] = {ToDict(queue[i].request)}
       /\ \A i \in 1..Len(queue) :
              queue[i].retries = 0 /\ queue[i].last_retry_time = 0

RestartRestoresBackups ==
    [][(last'.op = "restart" /\ Restart) =>
          /\ \A c \in PersistedSet : RestoredFrom(c, pending'[c])
          /\ pending'["precommit"] = <<>>]_vars

\* A restart has dropped retry bookkeeping and restored two benchmarks.
RestartWitness ==
    /\ last.op = "restart"
    /\ last.hit
    /\ Len(pending["benchmark"]) = 2

\* The submissions an on_update step has started.
Started == {x.submission : x \in inflight' \ inflight}
Occurrences(queue, s) == Cardinality({i \in 1..Len(queue) : queue[i] = s})
AllSubmissions ==
    UNION {{pending[c][i] : i \in 1..Len(pending[c])} : c \in CategorySet}
        \cup {x.submission : x \in inflight}

\* C8: a submission queued again after a retryable failure carries the time
\* T of that failure as its last_retry_time, and on_update starts no attempt
\* for it at a time before T + D.
NoAttemptBeforeDelay ==
    [][/\ \A x \in inflight :
              (last'.op = "submit" /\ last'.hit /\ SubmitResponse(x, last'.status)) =>
                  LET queue == pending'[x.submission.request.type]
                  IN queue[Len(queue)].last_retry_time = now
       /\ (last'.op = "update" /\ OnUpdate) =>
              \A s \in Started :
                  s.retries > 0 =>
                      now >= s.last_retry_time + config.ms_delay_between_retries]_vars

\* on_update has started a retried submission while a younger one stays queued.
BackoffWitness ==
    /\ last.op = "update"
    /\ last.hit
    /\ \E x \in inflight : x.submission.retries > 0
    /\ \E c \in CategorySet : \E i \in 1..Len(pending[c]) :
          /\ pending[c][i].retries > 0
          /\ now < pending[c][i].last_retry_time + config.ms_delay_between_retries

\* C9: at an update tick at which a submission queued again at T is the
\* oldest of its queue (least last_retry_time, first among ties) and the time
\* is at least T + D, the submission leaves the queue and its attempt starts.
Oldest(queue) ==
    queue[CHOOSE i \in 1..Len(queue) :
        \A j \in 1..Len(queue) :
            \/ queue[i].last_retry_time < queue[j].last_retry_time
            \/ queue[i].last_retry_time = queue[j].last_retry_time /\ i <= j]

OldestIsAttempted ==
    [][(last'.op = "update" /\ OnUpdate) =>
          \A c \in CategorySet :
              (/\ pending[c] # <<>>
               /\ Oldest(pending[c]).retries > 0
               /\ now >= Oldest(pending[c]).last_retry_time
                            + config.ms_delay_between_retries) =>
                  /\ Oldest(pending[c]) \in Started
                  /\ Len(pending'[c]) = Len(pending[c]) - 1
                  /\ Occurrences(pending'[c], Oldest(pending[c]))
                        = Occurrences(pending[c], Oldest(pending[c])) - 1]_vars

\* on_update has started a retried submission exactly when its delay ran out.
OldestWitness ==
    /\ last.op = "update"
    /\ last.hit
    /\ \E x \in inflight :
          /\ x.submission.retries > 0
          /\ now = x.submission.last_retry_time + config.ms_delay_between_retries

\* C10: with max_retries = N, a submission answered with a 5xx status is
\* queued again with its retry count incremented while the incremented count
\* stays below N, and is dropped at retry count N - 1, that is after exactly
\* N - 1 re-enqueues.
RetryCapEnforced ==
    /\ [](\A n \in config.max_retries : \A s \in AllSubmissions : s.retries <= n - 1)
    /\ [][\A x \in inflight : \A n \in config.max_retries :
            (/\ last'.op = "submit"
             /\ last'.status >= 500
             /\ last'.status <= 599
             /\ SubmitResponse(x, last'.status)) =>
                LET c == x.submission.request.type
                IN IF x.submission.retries < n - 1
                   THEN pending'[c] = Append(pending[c],
                            [last_retry_time |-> now,
                             retries |-> x.submission.retries + 1,
                             request |-> x.submission.request])
                   ELSE /\ x.submission.retries = n - 1
                        /\ pending' = pending]_vars

\* A submission queued again N - 1 times has been dropped on a 5xx status.
RetryCapWitness ==
    /\ last.op = "submit"
    /\ last.status = 503
    /\ ~ last.hit
    /\ \E n \in config.max_retries : last.retries = n - 1 /\ n >= 2
    /\ \A c \in CategorySet : pending[c] = <<>>

\* A status that is neither 200 nor one of 500..599 (0: no response).
IsClientError(status) ==
    status # 0 /\ status # 200 /\ ~ (500 <= status /\ status <= 599)

\* The number of submissions of queue c that carry the request.
RequestCount(queues, c, request) ==
    Cardinality({i \in 1..Len(queues[c]) : queues[c][i].request = request})

\* C11: a response whose status is neither 200 nor in 500..599 leaves the
\* queues as they are, whatever max_retries is, and the submission it was for
\* is not attempted again: once such a response has arrived, no restart,
\* new_block, update or clock step brings its request back into its queue.
ClientErrorDropsForGood ==
    [][/\ \A x \in inflight :
              (/\ last'.op = "submit"
               /\ IsClientError(last'.status)
               /\ SubmitResponse(x, last'.status)) => pending' = pending
       /\ (/\ last.op = "submit"
           /\ IsClientError(last.status)
           /\ last'.op \in {"submit", "restart", "new_block", "update"}
           /\ last' # last
           /\ last'.op = "submit" => last'.request # last.request) =>
              RequestCount(pending', last.cat, last.request)
                  <= RequestCount(pending, last.cat, last.request)]_vars

\* C12: a submission whose request failed without a response is in its
\* category's queue again, with its retry count incremented, whenever the
\* retry cap allows one more attempt.
TransportFailureRequeued ==
    (/\ last.op = "submit"
     /\ effect.raised
     /\ \A n \in config.max_retries : last.retries + 1 < n) =>
        \E i \in 1..Len(pending[last.cat]) :
            /\ pending[last.cat][i].request = last.request
            /\ pending[last.cat][i].retries = last.retries + 1

\* C13: a submission attempt that failed (a response other than 200, or an
\* exception while the request was issued) lets no exception out of
\* on_update and shows as one emitted submit_<category>_error event.
FailureContained ==
    (last.op = "submit" /\ last.status # 200) =>
        /\ ~ effect.raised
        /\ effect.emitted = <<"submit_" \o last.cat \o "_error">>

\* C14: one on_update invocation takes at most one item out of each
\* category's queue and starts at most one submission per category, at most
\* three in all, however long the queues are and whatever is in flight.
OnePerCategoryPerTick ==
    [][(last'.op = "update" /\ OnUpdate) =>
          /\ \A c \in CategorySet :
                /\ Len(pending'[c]) >= Len(pending[c]) - 1
                /\ Cardinality({x \in inflight' \ inflight :
                                    x.submission.request.type = c})
                       = Len(pending[c]) - Len(pending'[c])
          /\ Cardinality(inflight' \ inflight) <= 3
          /\ inflight \subseteq inflight']_vars

\* on_update has started a submission of a category whose queue still holds
\* an item that was ready at that tick.
OnePerCategoryWitness ==
    /\ last.op = "update"
    /\ last.hit
    /\ \E c \in CategorySet :
          /\ pending[c] # <<>>
          /\ pending[c][1].last_retry_time = 0
          /\ \E x \in inflight : x.submission.request.type = c

\* C15: a submission attempt that gets a response emits exactly one event:
\* submit_<category>_success when the status is 200 and only then,
\* submit_<category>_error for every other status, whether or not the item
\* is queued again.
OneResultEvent ==
    [][\A x \in inflight :
          (last'.op = "submit" /\ last'.status # 0 /\ SubmitResponse(x, last'.status)) =>
              LET c == x.submission.request.type
              IN /\ Len(effect'.emitted) = 1
                 /\ (effect'.emitted[1] = "submit_" \o c \o "_success")
                        <=> (last'.status = 200)
                 /\ (effect'.emitted[1] = "submit_" \o c \o "_error")
                        <=> (last'.status # 200)]_vars

\* A 503 response has queued the item again and emitted the error event.
OneResultEventWitness ==
    /\ last.op = "submit"
    /\ last.status = 503
    /\ last.hit
    /\ effect.emitted = <<"submit_" \o last.cat \o "_error">>

\* C16: with clear_precommits_submission_on_new_block set, the precommit
\* queue is empty after every on_new_block, whatever the block holds; with
\* the flag not set, on_new_block leaves the precommit queue as it is.
PrecommitsClearedOrKept ==
    [][last'.op = "new_block" =>
          IF config.clear_precommits_submission_on_new_block
          THEN pending'["precommit"] = <<>>
          ELSE pending'["precommit"] = pending["precommit"]]_vars

\* on_new_block has cleared a precommit queue that was not empty.
PrecommitsClearedWitness ==
    /\ last.op = "new_block"
    /\ config.clear_precommits_submission_on_new_block
    /\ effect.cleared > 0
    /\ pending["precommit"] = <<>>

\* The submissions as a *_ready event or the restore leaves them in a queue.
FreshItems ==
    {PendingSubmission(0, 0, r) :
        r \in {SubmitPrecommitRequest("s", n) : n \in PrecommitTags}
              \cup {SubmitBenchmarkRequest(e.benchmark_id, e.merkle_root,
                        e.solution_nonces) : e \in LiveBenchmarkEvents}
              \cup {SubmitProofRequest(e.benchmark_id, e.merkle_proofs) :
                        e \in LiveProofEvents}}

InQueue(s) ==
    \E i \in 1..Len(pending[s.request.type]) : pending[s.request.type][i] = s

\* C17: while update ticks keep coming and every request gets a response, a
\* submission that a *_ready event or the restore put in a queue leaves the
\* queue in the end, and it leaves it only as an on_update starts its
\* attempt or as an on_new_block removes it.
AtLeastOnce ==
    /\ \A s \in FreshItems : InQueue(s) ~> ~ InQueue(s)
    /\ [][\A s \in FreshItems :
            (InQueue(s) /\ ~ InQueue(s)') =>
                \/ last'.op = "update" /\ s \in Started
                \/ last'.op = "new_block"]_vars

\* Two precommits that were never attempted before have been started by two
\* ticks, the later one by the last step.
AtLeastOnceWitness ==
    /\ last.op = "update"
    /\ last.hit
    /\ \E x, y \in inflight :
          /\ x.tick # y.tick
          /\ x.submission \in FreshItems
          /\ y.submission \in FreshItems
          /\ x.submission.request.type = "precommit"
          /\ y.submission.request.type = "precommit"

\* C18: once an on_update invocation has returned, normally or with an
\* exception, none of the submissions it started is still in flight: every
\* outstanding request belongs to an invocation that is still in its gather.
TickAwaitsItsSubmissions ==
    \A x \in inflight : x.tick \in running

\* C19: with max_retries = N, every pending submission, queued or in flight,
\* has retries < N in every reachable state, so that an attempt under way is
\* at most the N-th of its item.
RetriesBelowCap ==
    \A n \in config.max_retries :
        /\ \A c \in CategorySet : \A i \in 1..Len(pending[c]) :
              pending[c][i].retries < n
        /\ \A x \in inflight : x.submission.retries + 1 <= n

\* The N-th attempt of an item is under way.
RetriesBelowCapWitness ==
    \E n \in config.max_retries : \E x \in inflight :
        n >= 2 /\ x.submission.retries = n - 1

IsNeverAttempted(s) == s.last_retry_time = 0

\* C20: within a category the never-attempted items (last_retry_time = 0) are
\* attempted in the order in which they were queued, and a tick attempts an
\* item that failed before only when the queue holds no never-attempted item:
\* while a queue holds such items, an on_update step starts none of the
\* category or the first of them, and leaves the others in their order.
FreshInOrder ==
    [][(last'.op = "update" /\ OnUpdate) =>
          \A c \in CategorySet :
              LET fresh == SelectSeq(pending[c], IsNeverAttempted)
                  left == SelectSeq(pending'[c], IsNeverAttempted)
                  begun == {s \in Started : s.request.type = c}
              IN fresh # <<>> =>
                    /\ begun \subseteq {fresh[1]}
                    /\ left = IF begun = {} THEN fresh ELSE Tail(fresh)
                    /\ Len(pending'[c]) - Len(left) = Len(pending[c]) - Len(fresh)]_vars

\* on_update has started a never-attempted item of a queue in which an item
\* that failed before, and whose delay had run out, stays behind.
FreshInOrderWitness ==
    /\ last.op = "update"
    /\ last.hit
    /\ \E c \in CategorySet :
          /\ \E x \in inflight :
                /\ x.submission.request.type = c
                /\ x.submission.last_retry_time = 0
          /\ \E i \in 1..Len(pending[c]) :
                /\ pending[c][i].retries > 0
                /\ now >= pending[c][i].last_retry_time + config.ms_delay_between_retries

====
